---- MODULE Spec2Model ----
(***************************************************************************)
(* DataPreprocessor (src/app/preprocessing.py): the transform pipeline of  *)
(* a pre-fitted artifact bundle over a raw table.                          *)
(*                                                                         *)
(* A cell is a record [t, n, s]: t is the kind of value, n its number      *)
(* (an int's value; a float's value in tenths; an infinity's sign) and s   *)
(* its text as a sequence of one-character strings.                        *)
(***************************************************************************)
EXTENDS Integers, Sequences, FiniteSets, TLC

VARIABLES bundle, pc, input, work, mask, ret, trace

vars == <<bundle, pc, input, work, mask, ret, trace>>

-----------------------------------------------------------------------------
(* Cells *)

IntC(k) == [t |-> "int", n |-> k, s |-> <<>>]
FloatC(tenths) == [t |-> "float", n |-> tenths, s |-> <<>>]
StrC(chars) == [t |-> "str", n |-> 0, s |-> chars]
NaN == [t |-> "nan", n |-> 0, s |-> <<>>]
NoneC == [t |-> "none", n |-> 0, s |-> <<>>]
InfC(sign) == [t |-> "inf", n |-> sign, s |-> <<>>]

-----------------------------------------------------------------------------
(* Text: Python's str.strip, str.lower, str(int), int(str) and pandas'     *)
(* to_numeric on one string.                                               *)

Digits == <<"0", "1", "2", "3", "4", "5", "6", "7", "8", "9">>
UpperLetters == <<"A", "B", "C", "D", "E", "F", "G", "H", "I", "J", "K", "L", "M",
                  "N", "O", "P", "Q", "R", "S", "T", "U", "V", "W", "X", "Y", "Z">>
LowerLetters == <<"a", "b", "c", "d", "e", "f", "g", "h", "i", "j", "k", "l", "m",
                  "n", "o", "p", "q", "r", "s", "t", "u", "v", "w", "x", "y", "z">>
Whitespace == {" ", "\t", "\n"}

IsDigit(ch) == \E i \in 1..10 : Digits[i] = ch
DigitVal(ch) == (CHOOSE i \in 1..10 : Digits[i] = ch) - 1

LowerCh(ch) ==
    IF \E i \in 1..26 : UpperLetters[i] = ch
    THEN LowerLetters[CHOOSE i \in 1..26 : UpperLetters[i] = ch]
    ELSE ch

Lower(str) == [i \in 1..Len(str) |-> LowerCh(str[i])]

RECURSIVE LStrip(_)
LStrip(str) ==
    IF str # <<>> /\ Head(str) \in Whitespace THEN LStrip(Tail(str)) ELSE str

RECURSIVE RStrip(_)
RStrip(str) ==
    IF str # <<>> /\ str[Len(str)] \in Whitespace
    THEN RStrip(SubSeq(str, 1, Len(str) - 1))
    ELSE str

Strip(str) == RStrip(LStrip(str))

RECURSIVE NatToStr(_)
NatToStr(k) ==
    IF k < 10 THEN <<Digits[k + 1]>>
    ELSE NatToStr(k \div 10) \o <<Digits[(k % 10) + 1]>>

IntToStr(k) == IF k < 0 THEN <<"-">> \o NatToStr(0 - k) ELSE NatToStr(k)

RECURSIVE DigitsVal(_)
DigitsVal(str) ==
    IF str = <<>> THEN 0
    ELSE 10 * DigitsVal(SubSeq(str, 1, Len(str) - 1)) + DigitVal(str[Len(str)])

AllDigits(str) == str # <<>> /\ \A i \in 1..Len(str) : IsDigit(str[i])

HasSign(str) == str # <<>> /\ Head(str) \in {"+", "-"}
SignOf(str) == IF str # <<>> /\ Head(str) = "-" THEN 0 - 1 ELSE 1
Unsigned(str) == IF HasSign(str) THEN Tail(str) ELSE str

\* Truncation toward zero of a value given in tenths (float -> int).
TruncTenths(tenths) ==
    IF tenths < 0 THEN 0 - ((0 - tenths) \div 10) ELSE tenths \div 10

\* int("..."): surrounding whitespace, an optional sign, decimal digits.
PyInt(str) ==
    LET body == Unsigned(Strip(str)) IN
    IF AllDigits(body)
    THEN [ok |-> TRUE, n |-> SignOf(Strip(str)) * DigitsVal(body)]
    ELSE [ok |-> FALSE, n |-> 0]

DotAt(str) == IF \E i \in 1..Len(str) : str[i] = "."
              THEN CHOOSE i \in 1..Len(str) : str[i] = "."
              ELSE 0

\* pd.to_numeric(..., errors='coerce') on one string: a decimal literal is
\* its value (kept here to one fractional digit), the words inf/infinity
\* are an infinity, anything else is coerced to NaN.
ToNumericStr(str) ==
    LET st == Strip(str)
        body == Unsigned(st)
        sg == SignOf(st)
        d == DotAt(body)
        whole == IF d = 0 THEN body ELSE SubSeq(body, 1, d - 1)
        frac == IF d = 0 THEN <<>> ELSE SubSeq(body, d + 1, Len(body))
    IN
    IF Lower(body) \in {<<"i", "n", "f">>, <<"i", "n", "f", "i", "n", "i", "t", "y">>}
    THEN InfC(sg)
    ELSE IF d = 0 /\ AllDigits(body)
    THEN FloatC(sg * 10 * DigitsVal(body))
    ELSE IF d > 0 /\ AllDigits(whole) /\ AllDigits(frac)
    THEN FloatC(sg * (10 * DigitsVal(whole) + DigitVal(frac[1])))
    ELSE NaN

\* str(value), as Series.astype(str) renders a cell.
Stringify(cell) ==
    CASE cell.t = "str" -> cell.s
      [] cell.t = "int" -> IntToStr(cell.n)
      [] cell.t = "float" ->
            (IF cell.n < 0 THEN <<"-">> ELSE <<>>)
            \o NatToStr((IF cell.n < 0 THEN 0 - cell.n ELSE cell.n) \div 10)
            \o <<".">>
            \o NatToStr((IF cell.n < 0 THEN 0 - cell.n ELSE cell.n) % 10)
      [] cell.t = "nan" -> <<"n", "a", "n">>
      [] cell.t = "none" -> <<"N", "o", "n", "e">>
      [] OTHER -> IF cell.n < 0 THEN <<"-", "i", "n", "f">> ELSE <<"i", "n", "f">>

-----------------------------------------------------------------------------
(* Frames: cols is the column order, idx the index labels (the positions   *)
(* of the rows in the caller's table), rows the cells by column name.      *)

Range(seq) == {seq[i] : i \in 1..Len(seq)}

NoFrame == [cols |-> <<>>, idx |-> <<>>, rows |-> <<>>]

NRows(frame) == Len(frame.rows)

\* df[cols] read as a matrix: one sequence of cells per row.
Sub(frame, cols) ==
    [i \in 1..NRows(frame) |-> [j \in 1..Len(cols) |-> frame.rows[i][cols[j]]]]

\* df[cols] = matrix
Assign(frame, cols, matrix) ==
    [frame EXCEPT !.rows =
        [i \in 1..NRows(frame) |->
            [col \in DOMAIN frame.rows[i] |->
                IF \E j \in 1..Len(cols) : cols[j] = col
                THEN matrix[i][CHOOSE j \in 1..Len(cols) : cols[j] = col]
                ELSE frame.rows[i][col]]]]

Column(frame, col) == [i \in 1..NRows(frame) |-> frame.rows[i][col]]

SetColumn(frame, col, cells) ==
    [frame EXCEPT !.rows =
        [i \in 1..NRows(frame) |-> [frame.rows[i] EXCEPT ![col] = cells[i]]]]

-----------------------------------------------------------------------------
(* _check_features *)

MissingFirstOnly(b, df) ==
    LET all == SelectSeq(b.used_features, LAMBDA col : col \notin Range(df.cols))
    IN IF all = <<>> THEN <<>> ELSE <<Head(all)>>

MissingFeatures(b, df) ==
    SelectSeq(b.used_features, LAMBDA col : col \notin Range(df.cols))

-----------------------------------------------------------------------------
(* transform, line 37: df[self.used_features].copy() *)

ProjectAllColumns(df, used) == df

Project(df, used) ==
    [cols |-> used,
     idx  |-> df.idx,
     rows |-> [i \in 1..NRows(df) |-> [col \in Range(used) |-> df.rows[i][col]]]]

-----------------------------------------------------------------------------
(* _remove_rows_with_missing_values *)

KeepInf(cell) == cell

\* df.replace([np.inf, -np.inf], np.nan), one cell
ReplaceInf(cell) == IF cell.t = "inf" THEN NaN ELSE cell

\* isna(), one cell
IsNa(cell) == cell.t \in {"nan", "none"}

\* mask = ~df.isna().any(axis=1), on the frame with infinities replaced
RowMask(frame) ==
    [i \in 1..NRows(frame) |->
        ~ \E col \in Range(frame.cols) : IsNa(ReplaceInf(frame.rows[i][col]))]

Positions(n) == [i \in 1..n |-> i]

SelectAllRows(frame, m) == frame

SelectRowsReversed(frame, m) ==
    LET kept == SelectSeq(Positions(NRows(frame)), LAMBDA i : m[i])
        k == Len(kept)
    IN [cols |-> frame.cols,
        idx  |-> [j \in 1..k |-> frame.idx[kept[k + 1 - j]]],
        rows |-> [j \in 1..k |-> frame.rows[kept[k + 1 - j]]]]

\* df[mask].copy()
SelectRows(frame, m) ==
    LET kept == SelectSeq(Positions(NRows(frame)), LAMBDA i : m[i])
    IN [cols |-> frame.cols,
        idx  |-> [j \in 1..Len(kept) |-> frame.idx[kept[j]]],
        rows |-> [j \in 1..Len(kept) |-> frame.rows[kept[j]]]]

\* df_cleaned.empty: no rows, or no columns
FrameEmpty(frame, cleaned) == NRows(cleaned) = 0 \/ Len(cleaned.cols) = 0

RemoveRowsWithMissingValues(frame) ==
    LET replaced == [frame EXCEPT !.rows =
                        [i \in 1..NRows(frame) |->
                            [col \in DOMAIN frame.rows[i] |-> ReplaceInf(frame.rows[i][col])]]]
        m == RowMask(frame)
        cleaned == SelectRows(replaced, m)
    IN [ok |-> ~ FrameEmpty(frame, cleaned), frame |-> cleaned, mask |-> m]

-----------------------------------------------------------------------------
(* _convert_dtypes: integer-like columns *)

int_to_str == <<"Stress Level", "Family History", "Diabetes", "Alcohol Consumption", "Diet">>

\* .astype(int) on one cell: an int is itself, a finite float is truncated,
\* a string goes through int(); anything else cannot be cast.
AsTypeInt(cell) ==
    CASE cell.t = "int" -> [ok |-> TRUE, n |-> cell.n]
      [] cell.t = "float" -> [ok |-> TRUE, n |-> TruncTenths(cell.n)]
      [] cell.t = "str" -> PyInt(cell.s)
      [] OTHER -> [ok |-> FALSE, n |-> 0]

\* pd.to_numeric(..., errors='coerce') on one cell
ToNumeric(cell) ==
    CASE cell.t = "int" -> FloatC(10 * cell.n)
      [] cell.t = "float" -> cell
      [] cell.t = "str" -> ToNumericStr(cell.s)
      [] cell.t = "inf" -> cell
      [] OTHER -> NaN

\* .fillna(-999) on one cell
FillNa(cell) == IF IsNa(cell) THEN FloatC(0 - 9990) ELSE cell

\* The except branch (line 99) on a whole column: the final .astype(int)
\* raises on a non-finite value, and that error leaves _convert_dtypes.
CoerceColumn(cells) ==
    LET filled == [i \in 1..Len(cells) |-> FillNa(ToNumeric(cells[i]))] IN
    IF \E i \in 1..Len(cells) : filled[i].t = "inf"
    THEN [ok |-> FALSE, cells |-> cells]
    ELSE [ok |-> TRUE,
          cells |-> [i \in 1..Len(cells) |-> StrC(IntToStr(TruncTenths(filled[i].n)))]]

\* Lines 95-99 on a whole column: the cast is tried on the column as a
\* whole, and any failure sends the whole column through the fallback.
IntStrColumn(cells) ==
    IF \A i \in 1..Len(cells) : AsTypeInt(cells[i]).ok
    THEN [ok |-> TRUE,
          cells |-> [i \in 1..Len(cells) |-> StrC(IntToStr(AsTypeInt(cells[i]).n))]]
    ELSE CoerceColumn(cells)

\* The loop of lines 92-99 from the k-th name of int_to_str on.
RECURSIVE ConvertIntColumns(_, _)
ConvertIntColumns(frame, k) ==
    IF k > Len(int_to_str) THEN [ok |-> TRUE, frame |-> frame]
    ELSE IF int_to_str[k] \notin Range(frame.cols) THEN ConvertIntColumns(frame, k + 1)
    ELSE LET r == IntStrColumn(Column(frame, int_to_str[k])) IN
         IF r.ok THEN ConvertIntColumns(SetColumn(frame, int_to_str[k], r.cells), k + 1)
         ELSE [ok |-> FALSE, frame |-> frame]

-----------------------------------------------------------------------------
(* _convert_dtypes: Gender *)

gender_mapping ==
    (<<"m", "a", "l", "e">> :> "Male") @@
    (<<"m">> :> "Male") @@
    (<<"m", "a", "n">> :> "Male") @@
    (<<"f", "e", "m", "a", "l", "e">> :> "Female") @@
    (<<"f">> :> "Female") @@
    (<<"w", "o", "m", "a", "n">> :> "Female") @@
    (<<"u", "n", "k", "n", "o", "w", "n">> :> "Unknown") @@
    (<<"n", "a", "n">> :> "Unknown") @@
    (<<"n", "o", "n", "e">> :> "Unknown") @@
    (<<>> :> "Unknown")

gender_codes ==
    [Male |-> <<"0">>, Female |-> <<"1">>, Unknown |-> <<"-", "9", "9", "9">>]

LowerOnly(cell) == Lower(Stringify(cell))

\* line 104: .astype(str).str.strip().str.lower()
NormalizeGender(cell) == Lower(Strip(Stringify(cell)))

\* lines 121-128: .map(gender_mapping).fillna('Unknown').map(codes)
GenderCode(cell) ==
    LET key == NormalizeGender(cell)
        label == IF key \in DOMAIN gender_mapping THEN gender_mapping[key] ELSE "Unknown"
    IN StrC(gender_codes[label])

ConvertGender(frame) ==
    IF "Gender" \in Range(frame.cols)
    THEN SetColumn(frame, "Gender",
                   [i \in 1..NRows(frame) |-> GenderCode(frame.rows[i]["Gender"])])
    ELSE frame

ConvertDtypes(frame) ==
    LET r == ConvertIntColumns(frame, 1) IN
    IF r.ok THEN [ok |-> TRUE, frame |-> ConvertGender(r.frame)]
    ELSE [ok |-> FALSE, frame |-> frame]

-----------------------------------------------------------------------------
(* The fitted artifacts of the bundle, as transform uses them (lines       *)
(* 46-52): each is fitted on a fixed number of columns and rejects a       *)
(* matrix of another width.                                                *)

Width(matrix, cols) == Len(cols)

\* imputer.transform(X): a cell equal to the imputer's missing marker is
\* replaced by the fitted statistic of its column.
ImputerRejects(imp, matrix, cols) == Len(imp.fill) # Width(matrix, cols)

ImputerCells(imp, matrix) ==
    [i \in 1..Len(matrix) |->
        [j \in 1..Len(matrix[i]) |->
            IF matrix[i][j] = imp.missing THEN imp.fill[j] ELSE matrix[i][j]]]

\* ordinal_encoder.transform(X): the position of the cell among the fitted
\* categories of its column; an unseen category is an error or the
\* configured unknown_value.
Known(enc, j, cell) == \E p \in 1..Len(enc.categories[j]) : enc.categories[j][p] = cell

EncoderNeverRejects(enc, matrix, cols) == FALSE

EncoderRejects(enc, matrix, cols) ==
    \/ Len(enc.categories) # Width(matrix, cols)
    \/ /\ enc.handle_unknown = "error"
       /\ \E i \in 1..Len(matrix) : \E j \in 1..Len(matrix[i]) : ~ Known(enc, j, matrix[i][j])

EncoderCells(enc, matrix) ==
    [i \in 1..Len(matrix) |->
        [j \in 1..Len(matrix[i]) |->
            IF Known(enc, j, matrix[i][j])
            THEN FloatC(10 * ((CHOOSE p \in 1..Len(enc.categories[j]) :
                                  enc.categories[j][p] = matrix[i][j]) - 1))
            ELSE enc.unknown_value]]

\* num_scaler.transform(X): the matrix is read as finite floats (a cell
\* that is no finite number is rejected) and centred on the fitted means.
ScalerRejects(sc, matrix, cols) ==
    \/ Len(sc.mean) # Width(matrix, cols)
    \/ \E i \in 1..Len(matrix) : \E j \in 1..Len(matrix[i]) :
          ToNumeric(matrix[i][j]).t # "float"

ScalerCells(sc, matrix) ==
    [i \in 1..Len(matrix) |->
        [j \in 1..Len(matrix[i]) |-> FloatC(ToNumeric(matrix[i][j]).n - sc.mean[j])]]

ScalerAppliesWheneverPresent(b) == b.num_scaler.present

\* line 51: self.num_scaler is not None and self.num_columns
ScalerApplies(b) == b.num_scaler.present /\ b.num_columns # <<>>

\* fit_transform in the place of transform: the imputer is refitted on the
\* matrix it is given.
ImputerRefitted(imp, matrix) ==
    IF Len(matrix) > 0 /\ Len(matrix[1]) = Len(imp.fill)
    THEN [imp EXCEPT !.fill = matrix[1]] ELSE imp

\* transform leaves a fitted artifact as it is.
ImputerAfterTransform(imp, matrix) == imp

-----------------------------------------------------------------------------
(* Bundles that __init__ may load (lines 11-23), and caller tables.        *)

MaxRows == 2

cStress == "Stress Level"
cDiet == "Diet"
cGender == "Gender"
cAge == "Age"
cExtra == "Extra"

sAbc == <<"a", "b", "c">>
sInf == <<"i", "n", "f">>
sSentinel == <<"-", "9", "9", "9">>

NanImputer(fills) == [missing |-> NaN, fill |-> fills]
Encoder(cats, mode) == [categories |-> cats, handle_unknown |-> mode, unknown_value |-> NaN]
NoScaler == [present |-> FALSE, mean |-> <<>>]
Scaler(means) == [present |-> TRUE, mean |-> means]

StressCats == <<StrC(<<"2">>), StrC(<<"3">>)>>
GenderCats == <<StrC(<<"0">>), StrC(<<"1">>)>>
DietCats == <<StrC(<<"1">>)>>

BundleStd ==
    [used_features |-> <<cStress, cGender, cAge>>,
     cat_columns |-> <<cStress, cGender>>,
     num_columns |-> <<cAge>>,
     simple_imputer_before_ord |-> NanImputer(<<StrC(<<"2">>), StrC(<<"0">>)>>),
     ordinal_encoder |-> Encoder(<<StressCats, GenderCats>>, "use_encoded_value"),
     simple_imputer_after_ord |-> NanImputer(<<FloatC(0), FloatC(10)>>),
     num_scaler |-> Scaler(<<300>>)]

\* the first imputer is fitted to fill the sentinel "-999"
BundleSentinel ==
    [BundleStd EXCEPT !.simple_imputer_before_ord =
        [missing |-> StrC(sSentinel), fill |-> <<StrC(<<"3">>), StrC(<<"1">>)>>]]

\* an encoder fitted with handle_unknown='error'
BundleStrict ==
    [BundleStd EXCEPT !.ordinal_encoder = Encoder(<<StressCats, GenderCats>>, "error")]

\* a scaler but no numeric column
BundleNoNum ==
    [BundleStd EXCEPT !.used_features = <<cStress, cGender>>, !.num_columns = <<>>,
                      !.num_scaler = Scaler(<<>>)]

\* no 'num_scaler' key in the artifacts, and an integer-like column listed
\* as numeric
BundleIntNumeric ==
    [used_features |-> <<cStress, cGender, cAge>>,
     cat_columns |-> <<cGender>>,
     num_columns |-> <<cAge, cStress>>,
     simple_imputer_before_ord |-> NanImputer(<<StrC(<<"0">>)>>),
     ordinal_encoder |-> Encoder(<<GenderCats>>, "use_encoded_value"),
     simple_imputer_after_ord |-> NanImputer(<<FloatC(10)>>),
     num_scaler |-> NoScaler]

\* two integer-like columns
BundleDiet ==
    [used_features |-> <<cStress, cDiet, cGender, cAge>>,
     cat_columns |-> <<cStress, cDiet, cGender>>,
     num_columns |-> <<cAge>>,
     simple_imputer_before_ord |-> NanImputer(<<StrC(<<"2">>), StrC(<<"1">>), StrC(<<"0">>)>>),
     ordinal_encoder |-> Encoder(<<StressCats, DietCats, GenderCats>>, "use_encoded_value"),
     simple_imputer_after_ord |-> NanImputer(<<FloatC(0), FloatC(0), FloatC(10)>>),
     num_scaler |-> Scaler(<<300>>)]

\* no feature at all
BundleNoFeatures ==
    [used_features |-> <<>>,
     cat_columns |-> <<>>,
     num_columns |-> <<>>,
     simple_imputer_before_ord |-> NanImputer(<<>>),
     ordinal_encoder |-> Encoder(<<>>, "use_encoded_value"),
     simple_imputer_after_ord |-> NanImputer(<<>>),
     num_scaler |-> NoScaler]

\* artifacts fitted on another number of columns than the bundle lists
BundleBadImputerBefore ==
    [BundleStd EXCEPT !.simple_imputer_before_ord = NanImputer(<<StrC(<<"2">>)>>)]
BundleBadImputerAfter ==
    [BundleStd EXCEPT !.simple_imputer_after_ord = NanImputer(<<FloatC(0)>>)]
BundleBadScaler == [BundleStd EXCEPT !.num_scaler = Scaler(<<300, 0>>)]

Bundles == {BundleSentinel, BundleStrict, BundleNoNum, BundleIntNumeric, BundleDiet,
            BundleNoFeatures, BundleBadImputerBefore, BundleBadImputerAfter, BundleBadScaler}

SharedBundles == {BundleSentinel, BundleStrict}

MessyBundles == {BundleSentinel, BundleDiet}

AllColumns == <<cStress, cDiet, cGender, cAge, cExtra>>

BaseRow ==
    (cStress :> IntC(2)) @@ (cDiet :> IntC(1)) @@ (cGender :> StrC(<<"M", "a", "l", "e">>))
    @@ (cAge :> IntC(30)) @@ (cExtra :> IntC(0))

StressCells == {FloatC(25), StrC(<<"3">>), StrC(sAbc), StrC(sInf), NaN, InfC(1)}
GenderCells == {StrC(<<" ", "m", " ">>), StrC(<<"M", "A", "N">>),
                StrC(<<"f", "e", "m", "a", "l", "e">>), StrC(<<"F">>),
                StrC(<<"W", "o", "m", "a", "n">>), StrC(<<"u", "n", "k", "n", "o", "w", "n">>),
                StrC(<<>>), StrC(<<"N", "a", "N">>), StrC(<<"x", "y", "z">>), IntC(1), NoneC}

\* Rows that differ from the base row in one column: the rows of the tables
\* every bundle is run on ...
SampleRows ==
    {BaseRow}
    \cup {[BaseRow EXCEPT ![cStress] = v] : v \in {StrC(<<"3">>), StrC(sAbc), NaN, InfC(1)}}
    \cup {[BaseRow EXCEPT ![cGender] = v] : v \in {StrC(<<"x", "y", "z">>), NoneC}}
    \cup {[BaseRow EXCEPT ![cAge] = v] : v \in {InfC(0 - 1), StrC(sAbc), FloatC(455)}}
    \cup {[BaseRow EXCEPT ![cExtra] = v] : v \in {NaN}}

\* ... and the rows of the tables that type normalization is run on.
MessyRows ==
    {BaseRow}
    \cup {[BaseRow EXCEPT ![cStress] = v] : v \in StressCells}
    \cup {[BaseRow EXCEPT ![cGender] = v] : v \in GenderCells}
    \cup {[BaseRow EXCEPT ![cDiet] = v] : v \in {StrC(sAbc)}}

SharedRows ==
    {BaseRow, [BaseRow EXCEPT ![cGender] = StrC(<<"x", "y", "z">>)],
     [BaseRow EXCEPT ![cStress] = NaN]}

TableColumns ==
    {AllColumns, <<cStress, cGender, cExtra>>, <<cAge, cExtra>>, <<cGender, cAge, cStress>>}

MakeTable(cols, rowseq) ==
    [cols |-> cols,
     idx  |-> Positions(Len(rowseq)),
     rows |-> [i \in 1..Len(rowseq) |-> [col \in Range(cols) |-> rowseq[i][col]]]]

RowSeqs(rowset) == UNION {[1..n -> rowset] : n \in 0..MaxRows}

Tables == {MakeTable(cols, rs) : cols \in TableColumns, rs \in RowSeqs(SampleRows)}

MessyTables == {MakeTable(AllColumns, rs) : rs \in RowSeqs(MessyRows)}

SharedTables ==
    {MakeTable(AllColumns, rs) : rs \in RowSeqs(SharedRows)}
    \cup {MakeTable(<<cAge, cExtra>>, <<BaseRow>>)}

-----------------------------------------------------------------------------
(* transform, one action per stage and per caller c.                       *)

NoRet == [kind |-> "none", err |-> "", cols |-> <<>>, table |-> NoFrame, mask |-> <<>>]
Raised(err, cols) ==
    [kind |-> "error", err |-> err, cols |-> cols, table |-> NoFrame, mask |-> <<>>]
Returned(table, m) ==
    [kind |-> "ok", err |-> "", cols |-> <<>>, table |-> table, mask |-> m]

\* An exception leaves transform: its locals are gone, the caller gets the error.
Raise(c, stage, err, cols) ==
    /\ pc' = [pc EXCEPT ![c] = "raised"]
    /\ ret' = [ret EXCEPT ![c] = Raised(err, cols)]
    /\ work' = [work EXCEPT ![c] = NoFrame]
    /\ mask' = [mask EXCEPT ![c] = <<>>]
    /\ trace' = [trace EXCEPT ![c] = Append(@, stage)]

Advance(c, stage, next, frame) ==
    /\ pc' = [pc EXCEPT ![c] = next]
    /\ work' = [work EXCEPT ![c] = frame]
    /\ trace' = [trace EXCEPT ![c] = Append(@, stage)]
    /\ UNCHANGED ret

\* preprocessor.transform(df) is called
Call(c, tables, from) ==
    /\ pc[c] \in from
    /\ \E df \in tables : input' = [input EXCEPT ![c] = df]
    /\ pc' = [pc EXCEPT ![c] = "check"]
    /\ work' = [work EXCEPT ![c] = NoFrame]
    /\ mask' = [mask EXCEPT ![c] = <<>>]
    /\ ret' = [ret EXCEPT ![c] = NoRet]
    /\ trace' = [trace EXCEPT ![c] = <<>>]
    /\ UNCHANGED bundle

\* line 34
CheckFeatures(c) ==
    /\ pc[c] = "check"
    /\ LET missing == MissingFeatures(bundle, input[c]) IN
       IF missing # <<>>
       THEN Raise(c, "check_features", "MissingFeatures", missing)
       ELSE Advance(c, "check_features", "project", work[c]) /\ UNCHANGED mask
    /\ UNCHANGED <<bundle, input>>

\* line 37
ProjectUsed(c) ==
    /\ pc[c] = "project"
    /\ pc' = [pc EXCEPT ![c] = "filter"]
    /\ work' = [work EXCEPT ![c] = Project(input[c], bundle.used_features)]
    /\ UNCHANGED <<bundle, input, mask, ret, trace>>

\* line 40
RemoveRows(c) ==
    /\ pc[c] = "filter"
    /\ LET r == RemoveRowsWithMissingValues(work[c]) IN
       IF r.ok
       THEN /\ Advance(c, "remove_rows", "convert", r.frame)
            /\ mask' = [mask EXCEPT ![c] = r.mask]
       ELSE Raise(c, "remove_rows", "EmptyAfterFilter", <<>>)
    /\ UNCHANGED <<bundle, input>>

\* line 43
ConvertTypes(c) ==
    /\ pc[c] = "convert"
    /\ LET r == ConvertDtypes(work[c]) IN
       IF r.ok
       THEN Advance(c, "convert_dtypes", "impute_before", r.frame) /\ UNCHANGED mask
       ELSE Raise(c, "convert_dtypes", "IntCasting", <<>>)
    /\ UNCHANGED <<bundle, input>>

\* line 46
ImputeBefore(c) ==
    /\ pc[c] = "impute_before"
    /\ LET cols == bundle.cat_columns
           imp == bundle.simple_imputer_before_ord
           X == Sub(work[c], cols)
       IN /\ IF ImputerRejects(imp, X, cols)
             THEN Raise(c, "simple_imputer_before_ord", "Artifact", <<>>)
             ELSE /\ Advance(c, "simple_imputer_before_ord", "encode",
                             Assign(work[c], cols, ImputerCells(imp, X)))
                  /\ UNCHANGED mask
          /\ bundle' = [bundle EXCEPT !.simple_imputer_before_ord =
                            ImputerAfterTransform(imp, X)]
    /\ UNCHANGED input

\* line 47
Encode(c) ==
    /\ pc[c] = "encode"
    /\ LET cols == bundle.cat_columns
           enc == bundle.ordinal_encoder
           X == Sub(work[c], cols)
       IN IF EncoderRejects(enc, X, cols)
          THEN Raise(c, "ordinal_encoder", "Artifact", <<>>)
          ELSE /\ Advance(c, "ordinal_encoder", "impute_after",
                          Assign(work[c], cols, EncoderCells(enc, X)))
               /\ UNCHANGED mask
    /\ UNCHANGED <<bundle, input>>

\* line 48
ImputeAfter(c) ==
    /\ pc[c] = "impute_after"
    /\ LET cols == bundle.cat_columns
           imp == bundle.simple_imputer_after_ord
           X == Sub(work[c], cols)
       IN IF ImputerRejects(imp, X, cols)
          THEN Raise(c, "simple_imputer_after_ord", "Artifact", <<>>)
          ELSE /\ Advance(c, "simple_imputer_after_ord", "scale",
                          Assign(work[c], cols, ImputerCells(imp, X)))
               /\ UNCHANGED mask
    /\ UNCHANGED <<bundle, input>>

\* lines 51-52
Scale(c) ==
    /\ pc[c] = "scale"
    /\ LET cols == bundle.num_columns
           sc == bundle.num_scaler
           X == Sub(work[c], cols)
       IN IF ScalerApplies(bundle)
          THEN IF ScalerRejects(sc, X, cols)
               THEN Raise(c, "num_scaler", "Artifact", <<>>)
               ELSE /\ Advance(c, "num_scaler", "return",
                               Assign(work[c], cols, ScalerCells(sc, X)))
                    /\ UNCHANGED mask
          ELSE /\ pc' = [pc EXCEPT ![c] = "return"]
               /\ UNCHANGED <<work, mask, ret, trace>>
    /\ UNCHANGED <<bundle, input>>

\* line 54
Return(c) ==
    /\ pc[c] = "return"
    /\ pc' = [pc EXCEPT ![c] = "done"]
    /\ ret' = [ret EXCEPT ![c] = Returned(work[c], mask[c])]
    /\ UNCHANGED <<bundle, input, work, mask, trace>>

Stage(c) ==
    \/ CheckFeatures(c)
    \/ ProjectUsed(c)
    \/ RemoveRows(c)
    \/ ConvertTypes(c)
    \/ ImputeBefore(c)
    \/ Encode(c)
    \/ ImputeAfter(c)
    \/ Scale(c)
    \/ Return(c)

InitFor(callers, bundles) ==
    /\ bundle \in bundles
    /\ pc = [c \in callers |-> "idle"]
    /\ input = [c \in callers |-> NoFrame]
    /\ work = [c \in callers |-> NoFrame]
    /\ mask = [c \in callers |-> <<>>]
    /\ ret = [c \in callers |-> NoRet]
    /\ trace = [c \in callers |-> <<>>]

\* One caller and one call, any bundle, any table.
Init == InitFor({1}, Bundles)
Next == \E c \in {1} : Call(c, Tables, {"idle"}) \/ Stage(c)
Spec == Init /\ [][Next]_vars

\* One caller and one call on a table of messy cells.
InitMessy == InitFor({1}, MessyBundles)
NextMessy == \E c \in {1} : Call(c, MessyTables, {"idle"}) \/ Stage(c)
SpecMessy == InitMessy /\ [][NextMessy]_vars

\* Two callers of one instance, calling again and again, their calls
\* interleaved stage by stage.
InitShared == InitFor({1, 2}, SharedBundles)
NextShared == \E c \in {1, 2} : Call(c, SharedTables, {"idle", "done", "raised"}) \/ Stage(c)
SpecShared == InitShared /\ [][NextShared]_vars

Callers == DOMAIN pc

-----------------------------------------------------------------------------
(* Vocabulary of the properties *)

Used == bundle.used_features

\* The columns of used_features that the caller's table lacks.
Absent(c) == {col \in Range(Used) : col \notin Range(input[c].cols)}

\* A missing-value marker or an infinity.
MissingOrInf(cell) == cell.t \in {"nan", "none", "inf"}

\* Row i of the caller's table has no missing or infinite used cell.
RowValid(c, i) == \A col \in Range(Used) : ~ MissingOrInf(input[c].rows[i][col])

TruePositions(m) == SelectSeq(Positions(Len(m)), LAMBDA i : m[i])

StageOrder ==
    <<"check_features", "remove_rows", "convert_dtypes", "simple_imputer_before_ord",
      "ordinal_encoder", "simple_imputer_after_ord", "num_scaler">>

ArtifactStages ==
    {"simple_imputer_before_ord", "ordinal_encoder", "simple_imputer_after_ord", "num_scaler"}

IsPrefix(short, long) ==
    Len(short) <= Len(long) /\ \A i \in 1..Len(short) : short[i] = long[i]

-----------------------------------------------------------------------------
\* C1: a table lacking at least one used column makes transform raise the
\* missing-features error naming exactly the absent used columns, each once;
\* the check is the only stage that ran, whatever the cells hold.
C1_MissingFeaturesNamed ==
    \A c \in Callers :
        (pc[c] \notin {"idle", "check"} /\ Absent(c) # {}) =>
            /\ pc[c] = "raised"
            /\ ret[c].kind = "error" /\ ret[c].err = "MissingFeatures"
            /\ Range(ret[c].cols) = Absent(c)
            /\ Len(ret[c].cols) = Cardinality(Absent(c))
            /\ ret[c].table = NoFrame /\ ret[c].mask = <<>>
            /\ trace[c] = <<"check_features">>

\* Several columns absent, and a row of the table that is invalid as well.
C1_Witness ==
    \E c \in Callers :
        /\ pc[c] = "raised" /\ ret[c].err = "MissingFeatures"
        /\ Cardinality(Absent(c)) >= 2
        /\ \E i \in 1..NRows(input[c]) : \E col \in Range(input[c].cols) :
              MissingOrInf(input[c].rows[i][col])

\* C2: all used columns present and every row (if any) with a missing or
\* infinite used cell: transform raises the empty-after-filter error, returns
\* neither table nor mask, and no later stage ran.
C2_EmptyAfterFilter ==
    \A c \in Callers :
        (/\ pc[c] \notin {"idle", "check", "project", "filter"}
         /\ Absent(c) = {}
         /\ \A i \in 1..NRows(input[c]) : ~ RowValid(c, i)) =>
            /\ pc[c] = "raised"
            /\ ret[c] = Raised("EmptyAfterFilter", <<>>)
            /\ trace[c] = <<"check_features", "remove_rows">>

\* Two rows, one dropped for an infinity and one for a missing marker.
C2_Witness ==
    \E c \in Callers :
        /\ pc[c] = "raised" /\ ret[c].err = "EmptyAfterFilter"
        /\ NRows(input[c]) = 2
        /\ \E col \in Range(Used) : input[c].rows[1][col].t = "inf"
        /\ \E col \in Range(Used) : input[c].rows[2][col].t \in {"nan", "none"}

\* C3: on return the mask has one entry per row of the caller's table and as
\* many true entries as the returned table has rows.
C3_MaskAligned ==
    \A c \in Callers :
        pc[c] = "done" =>
            /\ ret[c].kind = "ok"
            /\ Len(ret[c].mask) = NRows(input[c])
            /\ Len(TruePositions(ret[c].mask)) = NRows(ret[c].table)

\* A return after a row was dropped.
C3_Witness ==
    \E c \in Callers :
        /\ pc[c] = "done"
        /\ NRows(input[c]) = 2
        /\ NRows(ret[c].table) = 1

\* C4: mask[i] is true exactly when no used cell of row i is a missing marker
\* or an infinity; cells of other columns have no say.
C4_MaskIsRowValidity ==
    \A c \in Callers :
        pc[c] \in {"convert", "impute_before", "encode", "impute_after", "scale",
                   "return", "done"} =>
            /\ Len(mask[c]) = NRows(input[c])
            /\ \A i \in 1..NRows(input[c]) : mask[c][i] <=> RowValid(c, i)
            /\ pc[c] = "done" => ret[c].mask = mask[c]

\* A row dropped for an infinity beside a row kept although a column outside
\* used_features holds a missing marker.
C4_Witness ==
    \E c \in Callers :
        /\ pc[c] = "done" /\ NRows(input[c]) = 2
        /\ \E i \in 1..2 : /\ ~ ret[c].mask[i]
                           /\ \E col \in Range(Used) : input[c].rows[i][col].t = "inf"
        /\ \E i \in 1..2 : /\ ret[c].mask[i]
                           /\ \E col \in Range(input[c].cols) \ Range(Used) :
                                 input[c].rows[i][col].t = "nan"

\* C5: the returned rows are the rows whose mask entry is true, in the
\* caller's order, and the returned columns are used_features, in that order.
C5_RowsAndColumnsKept ==
    \A c \in Callers :
        pc[c] = "done" =>
            /\ ret[c].table.cols = Used
            /\ \A k \in 1..NRows(ret[c].table) : DOMAIN ret[c].table.rows[k] = Range(Used)
            /\ ret[c].table.idx = TruePositions(ret[c].mask)

\* Two rows returned from a table with a column outside used_features.
C5_Witness ==
    \E c \in Callers :
        /\ pc[c] = "done"
        /\ NRows(ret[c].table) = 2
        /\ Range(input[c].cols) \ Range(Used) # {}

MaleWords == {<<"m", "a", "l", "e">>, <<"m">>, <<"m", "a", "n">>}
FemaleWords == {<<"f", "e", "m", "a", "l", "e">>, <<"f">>, <<"w", "o", "m", "a", "n">>}

\* C6: after type normalization every surviving row's Gender cell is "0" when
\* the stringified, stripped, lowercased input is male/m/man, "1" when it is
\* female/f/woman, and "-999" for anything else.
C6_GenderThreeValued ==
    \A c \in Callers :
        (pc[c] = "impute_before" /\ "Gender" \in Range(Used)) =>
            \A k \in 1..NRows(work[c]) :
                LET orig == input[c].rows[work[c].idx[k]]["Gender"]
                    key == Lower(Strip(Stringify(orig)))
                IN work[c].rows[k]["Gender"] =
                      StrC(IF key \in MaleWords THEN <<"0">>
                           ELSE IF key \in FemaleWords THEN <<"1">>
                           ELSE sSentinel)

\* A padded "m" reconciled to "0" beside an unrecognized value made "-999".
C6_Witness ==
    \E c \in Callers :
        /\ pc[c] = "impute_before" /\ NRows(work[c]) = 2
        /\ input[c].rows[1]["Gender"] = StrC(<<" ", "m", " ">>)
        /\ work[c].rows[1]["Gender"] = StrC(<<"0">>)
        /\ input[c].rows[2]["Gender"] = StrC(<<"x", "y", "z">>)
        /\ work[c].rows[2]["Gender"] = StrC(sSentinel)

\* A string that is no number at all (pd.to_numeric coerces it to NaN).
Unparseable(cell) == cell.t = "str" /\ ToNumericStr(cell.s).t = "nan"

\* The integer value of a numeric cell: its value truncated toward zero.
IntegerValue(cell) == TruncTenths(ToNumeric(cell).n)

IntLikeUsed == Range(int_to_str) \cap Range(Used)

\* C7: an integer-like column never makes transform raise and never drops a
\* row for an unparseable cell; after type normalization an unparseable cell
\* holds "-999", every other cell the string of its integer value, and the
\* column is always left in string form.
C7_CoercionIsTotal ==
    \A c \in Callers :
        /\ ret[c].err # "IntCasting"
        /\ pc[c] \in {"convert", "impute_before"} =>
              \A i \in 1..NRows(input[c]) : RowValid(c, i) => mask[c][i]
        /\ pc[c] = "impute_before" =>
              \A col \in IntLikeUsed : \A k \in 1..NRows(work[c]) :
                  LET orig == input[c].rows[work[c].idx[k]][col] IN
                  work[c].rows[k][col] =
                      IF Unparseable(orig) THEN StrC(sSentinel)
                      ELSE StrC(IntToStr(IntegerValue(orig)))

\* C8: transform changes neither the caller's table nor the bundle, and two
\* finished calls on the same table hold the same result, however the calls
\* of the two callers were ordered and interleaved.
C8_TransformIsPure ==
    /\ [][/\ bundle' = bundle
          /\ \A c \in Callers : pc[c] \notin {"idle", "done", "raised"} => input'[c] = input[c]]_vars
    /\ [](\A c, d \in Callers :
            (pc[c] \in {"done", "raised"} /\ pc[d] \in {"done", "raised"}
             /\ input[c] = input[d]) => ret[c] = ret[d])

\* Both callers hold the two-row table returned for the same input.
C8_Witness ==
    /\ pc[1] = "done" /\ pc[2] = "done"
    /\ input[1] = input[2]
    /\ NRows(ret[1].table) = 2
    /\ ret[1] = ret[2]

-----------------------------------------------------------------------------
(* The categorical sub-protocol, cell by cell *)

\* The caller's table after filtering and type normalization.
Normalized(c) ==
    ConvertDtypes(RemoveRowsWithMissingValues(Project(input[c], Used)).frame).frame

Filled(imp, j, cell) == IF cell = imp.missing THEN imp.fill[j] ELSE cell

Coded(enc, j, cell) ==
    IF \E p \in 1..Len(enc.categories[j]) : enc.categories[j][p] = cell
    THEN FloatC(10 * ((CHOOSE p \in 1..Len(enc.categories[j]) : enc.categories[j][p] = cell) - 1))
    ELSE enc.unknown_value

CatCell(b, j, cell) ==
    Filled(b.simple_imputer_after_ord, j,
           Coded(b.ordinal_encoder, j, Filled(b.simple_imputer_before_ord, j, cell)))

ScalerDue == bundle.num_scaler.present /\ bundle.num_columns # <<>>

\* The stages ran once each in the fixed order, the scaler exactly when due,
\* and every categorical cell went through fill, encode, fill in that order.
OrderedStages(c) ==
    /\ trace[c] = IF ScalerDue THEN StageOrder ELSE SubSeq(StageOrder, 1, 6)
    /\ \A k \in 1..NRows(ret[c].table) : \A j \in 1..Len(bundle.cat_columns) :
          ret[c].table.rows[k][bundle.cat_columns[j]] =
              CatCell(bundle, j, Normalized(c).rows[k][bundle.cat_columns[j]])

Untouched(c, cols) ==
    \A k \in 1..NRows(ret[c].table) : \A col \in cols :
        ret[c].table.rows[k][col] = input[c].rows[ret[c].table.idx[k]][col]

TypeNormalized == Range(int_to_str) \cup {"Gender"}

\* C9 as stated: ordered stages, and without a due scaler every numeric
\* column of the output equals its filtered input values.
C9_NumericColumnsUnchanged ==
    \A c \in Callers :
        pc[c] = "done" =>
            /\ OrderedStages(c)
            /\ ~ ScalerDue => Untouched(c, Range(bundle.num_columns))

\* C9 amended: ordered stages, and without a due scaler every numeric column
\* that is neither categorical nor a target of type normalization equals its
\* filtered input values.
C9_OrderedStages ==
    \A c \in Callers :
        pc[c] = "done" =>
            /\ OrderedStages(c)
            /\ ~ ScalerDue =>
                  Untouched(c, Range(bundle.num_columns)
                               \ (Range(bundle.cat_columns) \cup TypeNormalized))

\* A return without scaling where an unseen category was repaired by the
\* second imputer and a plain numeric column came through as it was.
C9_Witness ==
    \E c \in Callers :
        /\ pc[c] = "done" /\ ~ ScalerDue
        /\ cAge \in Range(bundle.num_columns)
        /\ NRows(ret[c].table) = 2
        /\ \E k \in 1..2 :
              /\ Normalized(c).rows[k]["Gender"] = StrC(sSentinel)
              /\ ret[c].table.rows[k]["Gender"] = bundle.simple_imputer_after_ord.fill[
                    CHOOSE j \in 1..Len(bundle.cat_columns) : bundle.cat_columns[j] = "Gender"]

\* C10: an artifact's rejection ends the call at that stage with the error
\* and no table or mask (the stages before it ran once each, none after it),
\* and no call returns past a rejection.
C10_ArtifactErrorSurfaced ==
    \A c \in Callers :
        /\ ret[c].err = "Artifact" =>
              /\ pc[c] = "raised"
              /\ ret[c] = Raised("Artifact", <<>>)
              /\ work[c] = NoFrame /\ mask[c] = <<>>
              /\ IsPrefix(trace[c], StageOrder)
              /\ trace[c][Len(trace[c])] \in ArtifactStages
        /\ pc[c] = "done" =>
              LET cats == bundle.cat_columns
                  nums == bundle.num_columns
                  enc == bundle.ordinal_encoder
              IN
              /\ Len(bundle.simple_imputer_before_ord.fill) = Len(cats)
              /\ Len(enc.categories) = Len(cats)
              /\ Len(bundle.simple_imputer_after_ord.fill) = Len(cats)
              /\ enc.handle_unknown = "error" =>
                    \A k \in 1..NRows(ret[c].table) : \A j \in 1..Len(cats) :
                        Filled(bundle.simple_imputer_before_ord, j,
                               Normalized(c).rows[k][cats[j]]) \in Range(enc.categories[j])
              /\ ScalerDue =>
                    /\ Len(bundle.num_scaler.mean) = Len(nums)
                    /\ \A k \in 1..NRows(ret[c].table) : \A col \in Range(nums) :
                          ToNumeric(Normalized(c).rows[k][col]).t = "float"

\* The scaler, the last stage, rejected a table the three categorical
\* stages had already been applied to.
C10_Witness ==
    \E c \in Callers :
        /\ pc[c] = "raised" /\ ret[c].err = "Artifact"
        /\ trace[c] = StageOrder
        /\ NRows(input[c]) = 2
====
